---- MODULE Spec2Model ----
(***************************************************************************)
(* errorStatus (src/src/errorStatus.ts): a computed string that classifies *)
(* the error held by a ref into a translated status message.               *)
(*                                                                         *)
(* Strings are TLA+ strings (Len, SubSeq and \o act on them character by   *)
(* character).  A call that can fault yields an outcome record             *)
(* [kind, val]: kind "value" with the returned string, kind "raise" with   *)
(* the message of the thrown error, kind "undefined" for no value at all.  *)
(***************************************************************************)
EXTENDS Integers, Sequences, FiniteSets

VARIABLES
    holder,       \* TRUE iff the `error` argument is a ref (truthy)
    value,        \* error.value
    t,            \* the translate argument
    customError,  \* the customError argument
    options,      \* the options argument
    env,          \* the globals isServer() probes: process, window
    dirty,        \* the computed ref must re-run its getter on the next read
    cached,       \* the computed ref's stored value
    lastOp,       \* "init", "set" (error.value assigned) or "read"
    lastRead,     \* what the latest read of status.value gave its caller
    ran,          \* TRUE iff the latest read executed the getter
    run,          \* what the latest execution of the getter did
    reads,        \* reads of status.value since error.value last changed
    runs          \* getter executions since error.value last changed

vars == <<holder, value, t, customError, options, env, dirty, cached,
          lastOp, lastRead, ran, run, reads, runs>>

config == <<holder, t, customError, options, env>>

\* Reads of status.value explored between two changes of error.value.
MaxReads == 2

----------------------------------------------------------------------------
(* Outcomes *)

Value(s) == [kind |-> "value", val |-> s]
Raise(m) == [kind |-> "raise", val |-> m]
Undefined == [kind |-> "undefined", val |-> ""]

----------------------------------------------------------------------------
(* JavaScript primitives the getter uses *)

\* String.prototype.includes
includes(s, pat) ==
    \E i \in 1..(Len(s) - Len(pat) + 1) : SubSeq(s, i, i + Len(pat) - 1) = pat

Digit(d) ==
    CASE d = 0 -> "0" [] d = 1 -> "1" [] d = 2 -> "2" [] d = 3 -> "3"
      [] d = 4 -> "4" [] d = 5 -> "5" [] d = 6 -> "6" [] d = 7 -> "7"
      [] d = 8 -> "8" [] d = 9 -> "9"

RECURSIVE NatDigits(_)
NatDigits(n) ==
    IF n < 10 THEN Digit(n) ELSE NatDigits(n \div 10) \o Digit(n % 10)

\* Number.prototype.toString on an integer
toString(n) == IF n < 0 THEN "-" \o NatDigits(0 - n) ELSE NatDigits(n)

----------------------------------------------------------------------------
(* Error values: Error | string | number | null | undefined *)

Null == [type |-> "null", str |-> "", num |-> 0]
Undef == [type |-> "undefined", str |-> "", num |-> 0]
Str(s) == [type |-> "string", str |-> s, num |-> 0]
Num(n) == [type |-> "number", str |-> "", num |-> n]
Err(m) == [type |-> "Error", str |-> m, num |-> 0]

Messages ==
    { "", "Request aborted", "Aborted", "abort", "time out",
      "timeout of 1500ms exceeded", "aborted: timeout 504",
      "Something failed with code 500 extra", "504 then 400", "1500ms",
      "404 Not Found", "40 0", "Gateway 502 or 503", "429",
      "Custom weirdness", "Custom: aborted", "Custom 401" }

Numbers == { 0, 7, 42, 400, 404, 408, 500, 504, 1500, 4040, 400504, -404 }

ErrorValues ==
    {Null, Undef} \cup {Str(s) : s \in Messages}
                  \cup {Err(s) : s \in Messages}
                  \cup {Num(n) : n \in Numbers}

\* `if (error.value)`: null, undefined, "" and 0 are falsy, an Error never is
Truthy(v) ==
    CASE v.type = "string" -> v.str # ""
      [] v.type = "number" -> v.num # 0
      [] v.type = "Error"  -> TRUE
      [] OTHER             -> FALSE

----------------------------------------------------------------------------
(* The translate function t *)

\* the codes listed in descending order
C5_MutCodes == <<504, 503, 502, 500, 429, 408, 404, 403, 401, 400>>

httpStatusCodes == <<400, 401, 403, 404, 408, 429, 500, 502, 503, 504>>

\* the message catalog the host is required to provide
Catalog(key) ==
    CASE key = "errStatus.missingParameters"   -> "Missing required parameters"
      [] key = "errStatus.abortError"          -> "Request was aborted"
      [] key = "errStatus.defaultStatusError"  -> "An error occurred"
      [] key = "errStatus.unexpectedError"     -> "Unexpected error"
      [] key = "errStatus.400" -> "Bad request"
      [] key = "errStatus.401" -> "Unauthorized"
      [] key = "errStatus.403" -> "Forbidden"
      [] key = "errStatus.404" -> "Not found"
      [] key = "errStatus.408" -> "Timed out"
      [] key = "errStatus.429" -> "Too many requests"
      [] key = "errStatus.500" -> "Server error"
      [] key = "errStatus.502" -> "Bad gateway"
      [] key = "errStatus.503" -> "Service unavailable"
      [] key = "errStatus.504" -> "Gateway timeout"
      [] OTHER -> key

Keys ==
    { "errStatus.missingParameters", "errStatus.abortError",
      "errStatus.defaultStatusError", "errStatus.unexpectedError" }
    \cup { "errStatus." \o toString(httpStatusCodes[i]) : i \in 1..Len(httpStatusCodes) }

\* A translate argument: absent, or a function that throws on the keys in
\* `faults` and looks every other key up in the catalog.
NoT == [present |-> FALSE, faults |-> {}]
TFun(F) == [present |-> TRUE, faults |-> F]

Translators ==
    { NoT, TFun({}), TFun(Keys),
      TFun({"errStatus.unexpectedError"}),
      TFun({"errStatus.defaultStatusError", "errStatus.missingParameters"}),
      TFun({"errStatus.abortError", "errStatus.408", "errStatus.400", "errStatus.404"}) }

\* t(key)
CallT(tr, key) ==
    IF ~tr.present THEN Raise("t is not a function")
    ELSE IF key \in tr.faults THEN Raise("translate failed: " \o key)
    ELSE Value(Catalog(key))

----------------------------------------------------------------------------
(* The customError function *)

CustomErrors == {"absent", "message", "null", "empty", "throws", "readme"}

\* customError(v): kind "value", "null" or "raise"
CallCustom(c, v) ==
    CASE c = "message" -> Value("This is a custom error")
      [] c = "null"    -> [kind |-> "null", val |-> ""]
      [] c = "empty"   -> Value("")
      [] c = "throws"  -> Raise("custom classifier failed")
      [] c = "readme"  ->
            \* (err) => err && err.message.includes("Custom") ? "This is ..." : null
            IF ~Truthy(v) THEN [kind |-> "null", val |-> ""]
            ELSE IF v.type # "Error"
                 THEN Raise("Cannot read properties of undefined (reading 'includes')")
            ELSE IF includes(v.str, "Custom") THEN Value("This is a custom error")
            ELSE [kind |-> "null", val |-> ""]

----------------------------------------------------------------------------
(* Logging gate *)

NoOptions == [present |-> FALSE, debug |-> "unset", serverOnly |-> "unset"]
Opt(d, s) == [present |-> TRUE, debug |-> d, serverOnly |-> s]
Flag == {"unset", "true", "false"}
AllOptions == {NoOptions} \cup {Opt(d, s) : d \in Flag, s \in Flag}

\* process: undefined, an object without `server`, or with server true/false;
\* window: undefined or an object
Envs == [process : {"undefined", "noServerKey", "serverTrue", "serverFalse"},
         window  : {"undefined", "object"}]
BrowserEnv == [process |-> "undefined", window |-> "object"]

isServer(e) ==
    \/ /\ e.process # "undefined"              \* typeof process !== "undefined"
       /\ e.process # "noServerKey"            \* "server" in process
       /\ e.process = "serverTrue"             \* process.server === true
    \/ e.window = "undefined"                  \* typeof window === "undefined"

\* serverOnly is not looked at
C9_MutLogOption(o, e) == o.present /\ o.debug = "true"

logOption(o, e) ==
    IF ~(o.present /\ o.debug = "true") THEN FALSE
    ELSE IF ~(o.serverOnly = "true") THEN TRUE
    ELSE isServer(e)

----------------------------------------------------------------------------
(* The getter passed to computed() *)

ExtractMessage(v) ==
    IF v.type = "string" THEN v.str
    ELSE IF v.type = "Error" THEN v.str
    ELSE IF v.type = "number" THEN toString(v.num)
    ELSE ""

\* "timeout" is looked for before "aborted"
C4_MutSpecialCase(errorMessage) ==
    IF includes(errorMessage, "timeout") THEN "errStatus.408"
    ELSE IF includes(errorMessage, "aborted") THEN "errStatus.abortError"
    ELSE ""

\* the key of the special error type the message names, "" if none
SpecialCase(errorMessage) ==
    IF includes(errorMessage, "aborted") THEN "errStatus.abortError"
    ELSE IF includes(errorMessage, "timeout") THEN "errStatus.408"
    ELSE ""

\* httpStatusCodes.includes(error.value) on a number
DirectCode(v) ==
    /\ v.type = "number"
    /\ \E i \in 1..Len(httpStatusCodes) : httpStatusCodes[i] = v.num

\* for (const code of httpStatusCodes): the first code whose decimal form the
\* message includes, 0 if the loop ends without one
RECURSIVE ScanCodes(_, _)
ScanCodes(errorMessage, i) ==
    IF i > Len(httpStatusCodes) THEN 0
    ELSE IF includes(errorMessage, toString(httpStatusCodes[i]))
         THEN httpStatusCodes[i]
    ELSE ScanCodes(errorMessage, i + 1)

\* `errStatus.${code}`
StatusKey(code) == "errStatus." \o toString(code)

MissingParametersKey == "errStatus.missingParameters"
DefaultKey == "errStatus.defaultStatusError"
\* the catch block answers with the default message
C2_MutKey == "errStatus.defaultStatusError"

UnexpectedKey == "errStatus.unexpectedError"

\* only t is tested
C7_MutMissing(h, tr) == ~tr.present

\* `!error || !t`
MissingParameters(h, tr) == ~h \/ ~tr.present

\* the test is inverted: `if (!customMessage)`
C3_MutCustomAccepted(r) == ~(r.kind = "value" /\ r.val # "")

\* the test is `customMessage !== null`
C6_MutCustomAccepted(r) == r.kind = "value"

\* `if (customMessage)`
CustomAccepted(r) == r.kind = "value" /\ r.val # ""

\* `if (customError)`
CustomSupplied(c) == c # "absent"

\* the test is `error.value !== undefined`
C10_MutHasError(v) == v.type # "undefined"

\* `if (error.value)`
HasError(v) == Truthy(v)

\* the execution of the try block ends in `return t(key)`: the call's outcome
\* is the block's, a fault in t leaves the block as a throw
ReturnT(tr, key, rule, console, calls) ==
    LET r == CallT(tr, key)
    IN  [kind |-> r.kind, val |-> r.val, rule |-> rule,
         console |-> console, calls |-> calls]

\* the try block
TryBlock(h, v, tr, c, o, e) ==
    IF MissingParameters(h, tr) THEN
        ReturnT(tr, MissingParametersKey, "missingParameters",
                IF logOption(o, e)
                THEN << <<"warn", "errorStatus: Missing required parameters.">> >>
                ELSE <<>>,
                <<>>)
    ELSE IF HasError(v) THEN
        LET errorMessage == ExtractMessage(v)
            special == SpecialCase(errorMessage)
            code == ScanCodes(errorMessage, 1)
        IN  IF special # "" THEN ReturnT(tr, special, "special", <<>>, <<>>)
            ELSE IF DirectCode(v)
                 THEN ReturnT(tr, StatusKey(v.num), "statusCode", <<>>, <<>>)
            ELSE IF code # 0
                 THEN ReturnT(tr, StatusKey(code), "statusCode", <<>>, <<>>)
            ELSE IF CustomSupplied(c) THEN
                LET customMessage == CallCustom(c, v)
                IN  IF customMessage.kind = "raise"
                    THEN [kind |-> "raise", val |-> customMessage.val, rule |-> "custom",
                          console |-> <<>>, calls |-> <<v>>]
                    ELSE IF CustomAccepted(customMessage)
                    THEN [kind |-> "value", val |-> customMessage.val, rule |-> "custom",
                          console |-> <<>>, calls |-> <<v>>]
                    ELSE ReturnT(tr, DefaultKey, "default", <<>>, <<v>>)
            ELSE ReturnT(tr, DefaultKey, "default", <<>>, <<>>)
    ELSE ReturnT(tr, DefaultKey, "default", <<>>, <<>>)

\* the catch block: its own call of t is outside any try
CatchBlock(b, tr, o, e) ==
    LET r == CallT(tr, UnexpectedKey)
    IN  [result  |-> r,
         rule    |-> b.rule,
         fault   |-> TRUE,
         console |-> b.console \o
                     (IF logOption(o, e) THEN << <<"error", "Error:", b.val>> >>
                      ELSE <<>>),
         calls   |-> b.calls]

\* one execution of the getter
Getter(h, v, tr, c, o, e) ==
    LET b == TryBlock(h, v, tr, c, o, e)
    IN  IF b.kind = "raise" THEN CatchBlock(b, tr, o, e)
        ELSE [result |-> Value(b.val), rule |-> b.rule, fault |-> FALSE,
              console |-> b.console, calls |-> b.calls]

NoRun == [result |-> Undefined, rule |-> "none", fault |-> FALSE,
          console |-> <<>>, calls |-> <<>>]

----------------------------------------------------------------------------
(* The computed ref over the getter, and the ref it depends on *)

TypeOK ==
    /\ holder \in BOOLEAN
    /\ value \in ErrorValues
    /\ t \in Translators
    /\ customError \in CustomErrors
    /\ options \in AllOptions
    /\ env \in Envs
    /\ dirty \in BOOLEAN
    /\ cached.kind \in {"value", "undefined"}
    /\ lastOp \in {"init", "set", "read"}
    /\ lastRead.kind \in {"value", "raise", "undefined"}
    /\ ran \in BOOLEAN
    /\ reads \in 0..MaxReads
    /\ runs \in 0..reads

\* errorStatus(error, t, customError, options): computed() stores the getter and
\* runs nothing until the first read
Construct(h, v, tr, c, o, e) ==
    /\ holder = h
    /\ value = v
    /\ t = tr
    /\ customError = c
    /\ options = o
    /\ env = e
    /\ dirty = TRUE
    /\ cached = Undefined
    /\ lastOp = "init"
    /\ lastRead = Undefined
    /\ ran = FALSE
    /\ run = NoRun
    /\ reads = 0
    /\ runs = 0

\* a ref triggers its dependents only when the assigned value differs (two Error
\* values are told apart by their message; numbers are integers)
hasChanged(new, old) == new # old

\* error.value = v
SetValue(v) ==
    /\ holder
    /\ value' = v
    /\ dirty' = (dirty \/ hasChanged(v, value))
    /\ reads' = IF hasChanged(v, value) THEN 0 ELSE reads
    /\ runs' = IF hasChanged(v, value) THEN 0 ELSE runs
    /\ lastOp' = "set"
    /\ lastRead' = Undefined
    /\ ran' = FALSE
    /\ run' = NoRun
    /\ UNCHANGED <<config, cached>>

\* status.value while the computed ref is dirty: the getter runs.  A value is
\* stored and returned.  A fault leaves the getter through the read, to the
\* caller; the stored value is not replaced, and whether the ref is still dirty
\* afterwards depends on the version of vue the host runs.
ReadRecompute ==
    /\ dirty
    /\ reads < MaxReads
    /\ LET g == Getter(holder, value, t, customError, options, env)
       IN  /\ run' = g
           /\ lastRead' = g.result
           /\ IF g.result.kind = "value"
              THEN cached' = g.result /\ dirty' = FALSE
              ELSE cached' = cached /\ dirty' \in BOOLEAN
    /\ ran' = TRUE
    /\ lastOp' = "read"
    /\ reads' = reads + 1
    /\ runs' = runs + 1
    /\ UNCHANGED <<config, value>>

\* status.value while the computed ref is clean: the stored value is returned
ReadCached ==
    /\ ~dirty
    /\ reads < MaxReads
    /\ lastRead' = cached
    /\ ran' = FALSE
    /\ run' = NoRun
    /\ lastOp' = "read"
    /\ reads' = reads + 1
    /\ UNCHANGED <<config, value, dirty, cached, runs>>

\* the classification specification: every translate and classifier argument,
\* every error value, logging off or on in a browser
Init ==
    \E h \in BOOLEAN, tr \in Translators, c \in CustomErrors,
       o \in {NoOptions, Opt("true", "unset")} :
        \E v \in (IF h THEN ErrorValues ELSE {Undef}) :
            Construct(h, v, tr, c, o, BrowserEnv)

Next ==
    \/ \E v \in ErrorValues : SetValue(v)
    \/ ReadRecompute
    \/ ReadCached

Spec == Init /\ [][Next]_vars

\* the logging specification: every options argument in every environment,
\* over a few error values
LogValues == {Null, Str("Request aborted"), Err("Custom weirdness"), Num(404)}

InitLog ==
    \E h \in BOOLEAN, tr \in {NoT, TFun({}), TFun(Keys)}, c \in {"absent", "throws"},
       o \in AllOptions, e \in Envs :
        \E v \in (IF h THEN LogValues ELSE {Undef}) :
            Construct(h, v, tr, c, o, e)

NextLog ==
    \/ \E v \in LogValues : SetValue(v)
    \/ ReadRecompute
    \/ ReadCached

SpecLog == InitLog /\ [][NextLog]_vars

----------------------------------------------------------------------------
(* Properties *)

\* the decimal forms of the ten status codes, in the listed order
CodeText == <<"400", "401", "403", "404", "408", "429", "500", "502", "503", "504">>

\* the text the rules look at: a string itself, an Error's message, a number's
\* decimal form
TextOf(v) ==
    CASE v.type \in {"string", "Error"} -> v.str
      [] v.type = "number" -> toString(v.num)
      [] OTHER -> ""

TextRuleMatches(v) == includes(TextOf(v), "aborted") \/ includes(TextOf(v), "timeout")
CodeRuleMatches(v) == \E i \in 1..Len(CodeText) : includes(TextOf(v), CodeText[i])
NonEmpty(v) == v \notin {Null, Undef, Str(""), Num(0)}

\* the translate function is there and answers `key` with a string
Translates(key) == t.present /\ key \notin t.faults

CustomReturnsString ==
    /\ customError # "absent"
    /\ CallCustom(customError, value).kind = "value"
    /\ CallCustom(customError, value).val # ""

CustomReturnsNothing ==
    \/ customError = "absent"
    \/ CallCustom(customError, value).kind = "null"
    \/ CallCustom(customError, value) = Value("")

\* C1: every read of the result yields a string, never an exception, whatever
\* the holder, the held value, the translate function and the custom classifier.
C1_NeverRaises ==
    lastOp = "read" => lastRead.kind = "value"

\* C2: when a step of the classification faults (the translate call, or the
\* custom classifier), the read that ran it ends as the call
\* translate("errStatus.unexpectedError") ends.
C2_FaultGivesUnexpected ==
    (lastOp = "read" /\ ran /\ run.fault)
        => lastRead = CallT(t, "errStatus.unexpectedError")

C2_Witness ==
    /\ lastOp = "read" /\ ran /\ run.fault
    /\ run.calls = <<value>>
    /\ CallCustom(customError, value).kind = "raise"
    /\ lastRead = Value("Unexpected error")

\* C3 as stated: for every error value, absent ones included, that neither the
\* text rule nor the status-code rule matches, a custom classifier that returns a
\* non-empty string for it decides the result: exactly that string.
C3_Original ==
    (/\ lastOp = "read" /\ holder /\ t.present
     /\ ~TextRuleMatches(value) /\ ~CodeRuleMatches(value)
     /\ CustomReturnsString)
        => lastRead = Value(CallCustom(customError, value).val)

\* C3 amended: the same for every non-empty error value (a non-empty string, a
\* non-zero number, a structured error).
C3_CustomVerbatim ==
    (/\ lastOp = "read" /\ holder /\ t.present
     /\ NonEmpty(value)
     /\ ~TextRuleMatches(value) /\ ~CodeRuleMatches(value)
     /\ CustomReturnsString)
        => lastRead = Value(CallCustom(customError, value).val)

C3_Witness ==
    /\ lastOp = "read" /\ ran
    /\ value = Err("Custom weirdness")
    /\ customError = "readme"
    /\ t = TFun(Keys)
    /\ lastRead = Value("This is a custom error")

\* C4: a string or Error message containing "aborted" gives
\* translate("errStatus.abortError"), one containing "timeout" and not "aborted"
\* gives translate("errStatus.408"), whatever digits it contains and whatever the
\* custom classifier is (where translate answers that key).
C4_TextRuleFirst ==
    (lastOp = "read" /\ holder /\ value.type \in {"string", "Error"})
        => /\ (includes(value.str, "aborted") /\ Translates("errStatus.abortError"))
                => lastRead = Value(Catalog("errStatus.abortError"))
           /\ (/\ includes(value.str, "timeout") /\ ~includes(value.str, "aborted")
               /\ Translates("errStatus.408"))
                => lastRead = Value(Catalog("errStatus.408"))

C4_Witness ==
    /\ lastOp = "read" /\ ran
    /\ value = Str("aborted: timeout 504")
    /\ customError = "message"
    /\ lastRead = Value("Request was aborted")

\* C5: when the text rule does not match, a number equal to one of the ten codes
\* gives translate("errStatus.<that number>"), and otherwise the first code of
\* the list whose decimal form is in the text gives translate("errStatus.<code>")
\* (where translate answers that key).
C5_StatusCodeRule ==
    (lastOp = "read" /\ holder /\ ~TextRuleMatches(value))
        => \A i \in 1..Len(CodeText) :
             LET key == "errStatus." \o CodeText[i]
                 first == /\ includes(TextOf(value), CodeText[i])
                          /\ \A j \in 1..(i - 1) : ~includes(TextOf(value), CodeText[j])
             IN  ((value.type = "number" /\ TextOf(value) = CodeText[i]) \/ first)
                 /\ Translates(key)
                    => lastRead = Value(Catalog(key))

C5_Witness ==
    /\ lastOp = "read" /\ ran
    /\ value = Err("504 then 400")
    /\ customError = "message"
    /\ lastRead = Value("Bad request")

\* C6: when no rule matches and there is no custom classifier, or it returns an
\* empty or absent result, the result is translate("errStatus.defaultStatusError");
\* so it is whenever the held value is null or undefined (where translate answers
\* that key).
C6_Default ==
    (lastOp = "read" /\ holder /\ Translates("errStatus.defaultStatusError"))
        => /\ (~TextRuleMatches(value) /\ ~CodeRuleMatches(value) /\ CustomReturnsNothing)
                => lastRead = Value(Catalog("errStatus.defaultStatusError"))
           /\ value \in {Null, Undef}
                => lastRead = Value(Catalog("errStatus.defaultStatusError"))

C6_Witness ==
    /\ lastOp = "read" /\ ran
    /\ value = Str("abort")
    /\ customError = "empty"
    /\ run.calls = <<value>>
    /\ lastRead = Value("An error occurred")

\* C7: with the holder or the translate function missing, the getter takes the
\* missing-parameters return before the held value or the custom classifier is
\* consulted, and the result is translate("errStatus.missingParameters") when
\* translate is there and answers that key.
C7_MissingParameters ==
    (lastOp = "read" /\ (~holder \/ ~t.present))
        => /\ ran => (run.rule = "missingParameters" /\ run.calls = <<>>)
           /\ Translates("errStatus.missingParameters")
                => lastRead = Value(Catalog("errStatus.missingParameters"))

C7_Witness ==
    /\ lastOp = "read" /\ ran
    /\ ~holder
    /\ customError = "message"
    /\ lastRead = Value("Missing required parameters")

\* C8: every read returns the classification of the error value held at that
\* read, the getter runs once after a change, on the first read, and later reads
\* up to the next change return the stored string without running it.
C8_LazyCached ==
    lastOp = "read"
        => /\ lastRead = Getter(holder, value, t, customError, options, env).result
           /\ runs = 1
           /\ ran = (reads = 1)

\* the same, for the reads at which the classification of the held value does
\* not fault out of the getter
LazyCachedUnlessRaised ==
    (lastOp = "read"
     /\ Getter(holder, value, t, customError, options, env).result.kind = "value")
        => C8_LazyCached

\* C9: a message is logged during a recomputation only with options.debug true,
\* and with serverOnly true as well only in a server context; with debug true and
\* serverOnly false or unset every missing-parameters and fault path logs.
ServerContext == env.process = "serverTrue" \/ env.window = "undefined"

C9_LogGate ==
    lastOp = "read"
        => /\ run.console # <<>>
                => /\ options.present /\ options.debug = "true"
                   /\ options.serverOnly = "true" => ServerContext
           /\ (/\ ran
               /\ options.present /\ options.debug = "true"
               /\ options.serverOnly # "true"
               /\ (run.fault \/ ~holder \/ ~t.present))
                => run.console # <<>>

C9_Witness ==
    /\ lastOp = "read" /\ ran
    /\ options = Opt("true", "true")
    /\ env = [process |-> "serverTrue", window |-> "object"]
    /\ run.fault
    /\ run.console # <<>>

\* C10: a recomputation invokes the custom classifier at most once, with the held
\* error value, and only when the value is non-empty and the guard, the text rule
\* and the status-code rule have not matched; never when a built-in rule gives
\* the result.
C10_CustomLast ==
    lastOp = "read"
        => /\ Len(run.calls) <= 1
           /\ run.calls # <<>>
                => /\ run.calls[1] = value
                   /\ holder /\ t.present
                   /\ NonEmpty(value)
                   /\ ~TextRuleMatches(value) /\ ~CodeRuleMatches(value)
           /\ run.rule \in {"missingParameters", "special", "statusCode"}
                => run.calls = <<>>

C10_Witness ==
    /\ lastOp = "read" /\ ran
    /\ customError = "null"
    /\ value = Num(42)
    /\ run.calls = <<value>>
    /\ run.rule = "default"

====
